---- MODULE Spec2Model ----
(***************************************************************************)
(* Model of src/amazon/api.ts: the Parameter variants, the Request builder, *)
(* the canonicalisation and signing of a Request, the hex -> base64         *)
(* conversion of the digest and the classification of the HTTP response.    *)
(*                                                                          *)
(* A JavaScript string is a sequence of UTF-16 code units (naturals).  A    *)
(* JavaScript object used as a Dictionary is the sequence of its own        *)
(* <<key, value>> pairs in property enumeration order.                      *)
(***************************************************************************)
EXTENDS Integers, Sequences, FiniteSets, TLC

VARIABLES
    parameters,   \* Request.parameters: the ordered Parameter sequence
    pc,           \* position of the Request: "building", "awaiting", "done"
    strToSign,    \* the string getSignature signed (getStringToSign's result)
    signature,    \* the value getSignature returned
    queryString,  \* the string getQueryString returned for the POST
    callbacks,    \* the invocations of the caller's callback, in order
    uncaught,     \* TRUE when an exception left the response handler
    response,     \* the (err, httpResponse, body) handed to the post handler
    listKey,      \* ListParameter.key
    listValues,   \* ListParameter.values
    listResult,   \* what the last ListParameter.serialize returned
    listOp,       \* last ListParameter operation: "new", "push", "serialize"
    hexInput,     \* the hex digest handed to hexStrToBase64
    b64Output,    \* what getSignature made of it
    b64Op         \* "input" before getSignature ran on hexInput, "done" after

vars == <<parameters, pc, strToSign, signature, queryString, callbacks,
          uncaught, response, listKey, listValues, listResult, listOp,
          hexInput, b64Output, b64Op>>

reqVars == <<parameters, pc, strToSign, signature, queryString, callbacks,
             uncaught, response>>
listVars == <<listKey, listValues, listResult, listOp>>
b64Vars == <<hexInput, b64Output, b64Op>>

----------------------------------------------------------------------------
(* Bounds of the model *)

MaxParams == 2
MaxListLen == 2
MaxPush == 3
MaxBytes == 3

----------------------------------------------------------------------------
(* String literals of the source, as code-unit sequences *)

sPOST == <<80, 79, 83, 84>>  \* "POST"
sHost == <<109, 119, 115, 46, 97, 109, 97, 122, 111, 110, 115, 101, 114, 118, 105, 99, 101, 115, 46, 100, 101>>  \* "mws.amazonservices.de"
sEndpoint == <<47, 79, 114, 100, 101, 114, 115, 47, 50, 48, 49, 51, 45, 48, 57, 45, 48, 49>>  \* "/Orders/2013-09-01"
sAWSAccessKeyId == <<65, 87, 83, 65, 99, 99, 101, 115, 115, 75, 101, 121, 73, 100>>  \* "AWSAccessKeyId"
sSignatureMethod == <<83, 105, 103, 110, 97, 116, 117, 114, 101, 77, 101, 116, 104, 111, 100>>  \* "SignatureMethod"
sHmacSHA256 == <<72, 109, 97, 99, 83, 72, 65, 50, 53, 54>>  \* "HmacSHA256"
sSignatureVersion == <<83, 105, 103, 110, 97, 116, 117, 114, 101, 86, 101, 114, 115, 105, 111, 110>>  \* "SignatureVersion"
sTimestamp == <<84, 105, 109, 101, 115, 116, 97, 109, 112>>  \* "Timestamp"
sSignature == <<83, 105, 103, 110, 97, 116, 117, 114, 101>>  \* "Signature"
sTab == <<65, 66, 67, 68, 69, 70, 71, 72, 73, 74, 75, 76, 77, 78, 79, 80, 81, 82, 83, 84, 85, 86, 87, 88, 89, 90, 97, 98, 99, 100, 101, 102, 103, 104, 105, 106, 107, 108, 109, 110, 111, 112, 113, 114, 115, 116, 117, 118, 119, 120, 121, 122, 48, 49, 50, 51, 52, 53, 54, 55, 56, 57, 43, 47>>  \* "ABCDEF...wxyz0123456789+/"
sHex == <<48, 49, 50, 51, 52, 53, 54, 55, 56, 57, 97, 98, 99, 100, 101, 102>>  \* "0123456789abcdef"
sHexUpper == <<48, 49, 50, 51, 52, 53, 54, 55, 56, 57, 65, 66, 67, 68, 69, 70>>  \* "0123456789ABCDEF"

cAmp == 38       \* '&'
cEq == 61        \* '='
cDot == 46       \* '.'
cNewline == 10   \* '\n'
cPercent == 37   \* '%'
cStar == 42      \* '*'
cLParen == 40    \* '('
cRParen == 41    \* ')'
cQuote == 39     \* '
cBang == 33      \* '!'

(* The credentials the requests of the model are built with *)
credentials == [awsAccountId |-> <<65, 75, 73, 68>>,   \* "AKID"
                host |-> sHost]

----------------------------------------------------------------------------
(* Generic string helpers *)

RECURSIVE ConcatRange(_, _, _)
(* parts[lo] \o ... \o parts[hi] *)
ConcatRange(parts, lo, hi) ==
    IF lo > hi THEN <<>>
    ELSE IF lo = hi THEN parts[lo]
    ELSE LET mid == (lo + hi) \div 2
         IN ConcatRange(parts, lo, mid) \o ConcatRange(parts, mid + 1, hi)

(* the concatenation of a sequence of strings *)
Concat(parts) == ConcatRange(parts, 1, Len(parts))

(* Array.prototype.join of a sequence of strings with a separator string *)
Join(strs, sep) ==
    Concat([i \in 1..(2 * Len(strs) - 1) |-> IF i % 2 = 1 THEN strs[(i + 1) \div 2] ELSE sep])

RECURSIVE ToDec(_)
(* Number -> string conversion of a natural, as '' + n renders it *)
ToDec(n) ==
    IF n < 10 THEN <<48 + n>> ELSE ToDec(n \div 10) \o <<48 + (n % 10)>>

(* String.prototype.indexOf of a one-character (or empty) string *)
IndexOf(str, ch) ==
    IF ch = <<>> THEN 0
    ELSE IF \E i \in 1..Len(str) : str[i] = ch[1]
         THEN (CHOOSE i \in 1..Len(str) :
                   str[i] = ch[1] /\ \A j \in 1..(i-1) : str[j] /= ch[1]) - 1
         ELSE -1

(* String.prototype.charAt, 0-based; '' past the end *)
CharAt(str, i) == IF i >= 0 /\ i < Len(str) THEN <<str[i + 1]>> ELSE <<>>

(* s < t in the code-unit order the default Array.prototype.sort uses *)
StrLess(s, t) ==
    \E i \in 1..Len(t) :
        /\ \A j \in 1..(i - 1) : j <= Len(s) /\ s[j] = t[j]
        /\ (i > Len(s) \/ s[i] < t[i])

----------------------------------------------------------------------------
(* Percent-encoding *)

(* The characters encodeURIComponent leaves alone: A-Z a-z 0-9 - _ . ! ~ * ' ( ) *)
IsUriUnescaped(c) ==
    \/ c \in 65..90
    \/ c \in 97..122
    \/ c \in 48..57
    \/ c \in {45, 95, 46, 33, 126, 42, 39, 40, 41}

(* The UTF-8 bytes of a code unit outside the surrogate range *)
Utf8(c) ==
    IF c < 128 THEN <<c>>
    ELSE IF c < 2048 THEN <<192 + (c \div 64), 128 + (c % 64)>>
    ELSE <<224 + (c \div 4096), 128 + ((c \div 64) % 64), 128 + (c % 64)>>

(* One byte as %XX with upper-case hex digits *)
PctByte(b) == <<cPercent, sHexUpper[(b \div 16) + 1], sHexUpper[(b % 16) + 1]>>

PctBytes(bytes) == Concat([i \in 1..Len(bytes) |-> PctByte(bytes[i])])

encodeURIComponent(str) ==
    Concat([i \in 1..Len(str) |->
               IF IsUriUnescaped(str[i]) THEN <<str[i]>> ELSE PctBytes(Utf8(str[i]))])

(* String.prototype.replace with a global one-character pattern *)
ReplaceAll(str, ch, rep) ==
    Concat([i \in 1..Len(str) |-> IF str[i] = ch THEN rep ELSE <<str[i]>>])

urlEncode(input) ==
    LET e0 == encodeURIComponent(input)
        e1 == ReplaceAll(e0, cStar, <<cPercent, 50, 65>>)     \* %2A
        e2 == ReplaceAll(e1, cLParen, <<cPercent, 50, 56>>)   \* %28
        e3 == ReplaceAll(e2, cRParen, <<cPercent, 50, 57>>)   \* %29
        e4 == ReplaceAll(e3, cQuote, <<cPercent, 50, 55>>)    \* %27
        e5 == ReplaceAll(e4, cBang, <<cPercent, 50, 49>>)     \* %21
    IN e5

----------------------------------------------------------------------------
(* Dictionary<string>: a JavaScript object as its <<key, value>> pairs in   *)
(* property enumeration order (array-index keys ascending, then the other   *)
(* keys in the order they were first written).                              *)

(* a canonical array index: decimal digits, no leading zero, below 2^32 - 1 *)
IsArrayIndex(k) ==
    /\ Len(k) \in 1..10
    /\ \A i \in 1..Len(k) : k[i] \in 48..57
    /\ (Len(k) = 1 \/ k[1] /= 48)
    /\ (Len(k) < 10 \/ StrLess(k, <<52, 50, 57, 52, 57, 54, 55, 50, 57, 53>>))

(* numeric order of two array indices *)
IndexLess(a, b) == Len(a) < Len(b) \/ (Len(a) = Len(b) /\ StrLess(a, b))

Has(obj, k) == \E i \in 1..Len(obj) : obj[i][1] = k

Get(obj, k) == obj[CHOOSE i \in 1..Len(obj) : obj[i][1] = k][2]

Keys(obj) == [i \in 1..Len(obj) |-> obj[i][1]]

KeySet(obj) == {obj[i][1] : i \in 1..Len(obj)}

(* obj[k] = v that leaves a key already present alone *)
PutKeepFirst(obj, k, v) ==
    IF \E i \in 1..Len(obj) : obj[i][1] = k THEN obj ELSE Append(obj, <<k, v>>)

(* obj[k] = v *)
Put(obj, k, v) ==
    IF Has(obj, k)
    THEN [i \in 1..Len(obj) |-> IF obj[i][1] = k THEN <<k, v>> ELSE obj[i]]
    ELSE IF IsArrayIndex(k)
    THEN LET before == SelectSeq(obj, LAMBDA p : IsArrayIndex(p[1]) /\ IndexLess(p[1], k))
             after == SelectSeq(obj, LAMBDA p : ~(IsArrayIndex(p[1]) /\ IndexLess(p[1], k)))
         IN before \o <<<<k, v>>>> \o after
    ELSE Append(obj, <<k, v>>)

RECURSIVE Extend(_, _)
(* _.extend(obj, source) *)
Extend(obj, source) ==
    IF source = <<>> THEN obj
    ELSE Extend(Put(obj, source[1][1], source[1][2]), Tail(source))

(* Array.prototype.sort() without a comparator, on an array of strings:    *)
(* element j goes to the place given by the number of elements before it   *)
(* in code-unit order (equal elements in their original order)             *)
Sort(keys) ==
    LET n == Len(keys)
        rank(j) == Cardinality({m \in 1..n : \/ StrLess(keys[m], keys[j])
                                             \/ (keys[m] = keys[j] /\ m < j)})
    IN [i \in 1..n |-> keys[CHOOSE j \in 1..n : rank(j) = i - 1]]

----------------------------------------------------------------------------
(* Parameters *)

StringParameter(key, value) == [type |-> "String", key |-> key, value |-> value]
TimestampParameter(key, ms) == [type |-> "Timestamp", key |-> key, moment |-> ms]
ListParameter(key, values) == [type |-> "List", key |-> key, values |-> values]

(* moment.toISOString() of an instant ms milliseconds after the epoch,      *)
(* for instants within the first ten seconds: 1970-01-01T00:00:0S.mmmZ      *)
toISOString(ms) ==
    LET frac == ms % 1000
    IN <<49, 57, 55, 48, 45, 48, 49, 45, 48, 49, 84, 48, 48, 58, 48, 48, 58, 48>>
       \o ToDec(ms \div 1000) \o <<cDot>>
       \o <<48 + (frac \div 100), 48 + ((frac \div 10) % 10), 48 + (frac % 10)>>
       \o <<90>>

RECURSIVE ListSerializeFromZero(_, _, _, _)
(* the serialize loop with count++ in place of ++count *)
ListSerializeFromZero(key, values, count, result) ==
    IF values = <<>> THEN result
    ELSE ListSerializeFromZero(key, Tail(values), count + 1,
                               Put(result, key \o <<cDot>> \o ToDec(count), values[1]))

RECURSIVE ListSerializeFrom(_, _, _, _)
(* the _.each loop of ListParameter.serialize: count is the counter so far *)
ListSerializeFrom(key, values, count, result) ==
    IF values = <<>> THEN result
    ELSE ListSerializeFrom(key, Tail(values), count + 1,
                           Put(result, key \o <<cDot>> \o ToDec(count + 1), values[1]))

ListSerialize(key, values) == ListSerializeFrom(key, values, 0, <<>>)

(* Parameter.serialize() *)
Serialize(param) ==
    IF param.type = "String" THEN Put(<<>>, param.key, param.value)
    ELSE IF param.type = "Timestamp" THEN Put(<<>>, param.key, toISOString(param.moment))
    ELSE ListSerialize(param.key, param.values)

RECURSIVE FlattenInto(_, _)
(* the _.each(this.parameters, ...) loop that extends input *)
FlattenInto(input, params) ==
    IF params = <<>> THEN input
    ELSE FlattenInto(Extend(input, Serialize(params[1])), Tail(params))

Flatten(params) == FlattenInto(<<>>, params)

----------------------------------------------------------------------------
(* Canonicalisation *)

(* getQueryString without the urlEncode of the values *)
getQueryStringRaw(params) ==
    LET input == Flatten(params)
        queryArray == [i \in 1..Len(input) |-> input[i][1] \o <<cEq>> \o input[i][2]]
    IN Join(queryArray, <<cAmp>>)

getQueryString(params) ==
    LET input == Flatten(params)
        queryArray == [i \in 1..Len(input) |->
                          input[i][1] \o <<cEq>> \o urlEncode(input[i][2])]
    IN Join(queryArray, <<cAmp>>)

(* getStringToSign without the sort of the keys *)
getStringToSignUnsorted(params, endpoint) ==
    LET input == Flatten(params)
        keys == Keys(input)
        pairs == [i \in 1..Len(keys) |->
                     keys[i] \o <<cEq>> \o urlEncode(Get(input, keys[i]))]
        str == Join(pairs, <<cAmp>>)
    IN Join(<<sPOST, credentials.host, endpoint, str>>, <<cNewline>>)

getStringToSign(params, endpoint) ==
    LET input == Flatten(params)
        keys == Sort(Keys(input))
        pairs == [i \in 1..Len(keys) |->
                     keys[i] \o <<cEq>> \o urlEncode(Get(input, keys[i]))]
        str == Join(pairs, <<cAmp>>)
    IN Join(<<sPOST, credentials.host, endpoint, str>>, <<cNewline>>)

----------------------------------------------------------------------------
(* 32-bit integer operators of JavaScript, on two's complement bit vectors *)
(* (least significant bit first)                                            *)

Pow2(n) ==
    <<1, 2, 4, 8, 16, 32, 64, 128, 256, 512, 1024, 2048, 4096, 8192, 16384, 32768,
      65536, 131072, 262144, 524288, 1048576, 2097152, 4194304, 8388608, 16777216,
      33554432, 67108864, 134217728, 268435456, 536870912, 1073741824>>[n + 1]

Bits32(x) ==
    LET low == IF x >= 0 THEN x ELSE (x + 2147483647) + 1
    IN [i \in 1..32 |-> IF i = 32 THEN (IF x < 0 THEN 1 ELSE 0)
                        ELSE (low \div Pow2(i - 1)) % 2]

RECURSIVE BitSum(_, _, _)
(* the number whose bits lo..hi are bits[lo..hi] and whose other bits are 0 *)
BitSum(bits, lo, hi) ==
    IF lo > hi THEN 0
    ELSE IF lo = hi THEN bits[lo] * Pow2(lo - 1)
    ELSE LET mid == (lo + hi) \div 2
         IN BitSum(bits, lo, mid) + BitSum(bits, mid + 1, hi)

LowBits(bits, n) == BitSum(bits, 1, n)

FromBits32(bits) ==
    IF bits[32] = 1 THEN (LowBits(bits, 31) - 2147483647) - 1 ELSE LowBits(bits, 31)

(* x << n *)
Shl(x, n) ==
    LET bits == Bits32(x)
    IN FromBits32([i \in 1..32 |-> IF i > n THEN bits[i - n] ELSE 0])

(* x | y *)
BitOr(x, y) ==
    LET bx == Bits32(x)
        by == Bits32(y)
    IN FromBits32([i \in 1..32 |-> IF bx[i] + by[i] > 0 THEN 1 ELSE 0])

(* (x >>> n) & 0x3F *)
UshrAnd3F(x, n) ==
    LET bits == Bits32(x)
    IN LowBits([i \in 1..6 |-> IF i + n <= 32 THEN bits[i + n] ELSE 0], 6)

----------------------------------------------------------------------------
(* Signature encoding *)

(* the group conversion with the padding test the source has commented out *)
HexGroupOldPadding(input, i) ==
    LET len == Len(input)
        c1 == Shl(IndexOf(sHex, CharAt(input, i)), 4) + IndexOf(sHex, CharAt(input, i + 1))
        c2 == (IF i + 2 < len THEN Shl(IndexOf(sHex, CharAt(input, i + 2)), 4) ELSE 0)
              + (IF i + 3 < len THEN IndexOf(sHex, CharAt(input, i + 3)) ELSE 0)
        c3 == (IF i + 4 < len THEN Shl(IndexOf(sHex, CharAt(input, i + 4)), 4) ELSE 0)
              + (IF i + 5 < len THEN IndexOf(sHex, CharAt(input, i + 5)) ELSE 0)
        triplet == BitOr(BitOr(Shl(c1, 16), Shl(c2, 8)), c3)
    IN [j \in 1..4 |->
           IF i * 16 + (j - 1) * 12 > len * 16 THEN cEq
           ELSE sTab[UshrAnd3F(triplet, 6 * (3 - (j - 1))) + 1]]

(* the four output characters of one six-digit group starting at i *)
HexGroup(input, i) ==
    LET len == Len(input)
        c1 == Shl(IndexOf(sHex, CharAt(input, i)), 4) + IndexOf(sHex, CharAt(input, i + 1))
        c2 == (IF i + 2 < len THEN Shl(IndexOf(sHex, CharAt(input, i + 2)), 4) ELSE 0)
              + (IF i + 3 < len THEN IndexOf(sHex, CharAt(input, i + 3)) ELSE 0)
        c3 == (IF i + 4 < len THEN Shl(IndexOf(sHex, CharAt(input, i + 4)), 4) ELSE 0)
              + (IF i + 5 < len THEN IndexOf(sHex, CharAt(input, i + 5)) ELSE 0)
        triplet == BitOr(BitOr(Shl(c1, 16), Shl(c2, 8)), c3)
    IN [j \in 1..4 |->
           IF i * 4 + (j - 1) * 6 > len * 4 THEN cEq
           ELSE sTab[UshrAnd3F(triplet, 6 * (3 - (j - 1))) + 1]]

hexStrToBase64(input) ==
    Concat([g \in 1..((Len(input) + 5) \div 6) |-> HexGroup(input, 6 * (g - 1))])

(* getSignature from the hex digest on: conversion, then the padding loop *)
getSignature(hmac) ==
    LET b64hmac == hexStrToBase64(hmac)
        j == Len(b64hmac) % 4
    IN b64hmac \o [i \in 1..j |-> cEq]

(* digest('hex'): two lower-case hex digits per byte *)
HexDigest(bytes) ==
    [i \in 1..(2 * Len(bytes)) |->
        IF i % 2 = 1 THEN sHex[(bytes[(i + 1) \div 2] \div 16) + 1]
        ELSE sHex[(bytes[i \div 2] % 16) + 1]]

(* RFC 4648 base64 of a byte sequence, the reference the conversion is held to *)
Base64Std(bytes) ==
    LET n == Len(bytes)
        byte(i) == IF i <= n THEN bytes[i] ELSE 0
        quad(g) ==
            LET b1 == byte(3 * g - 2)
                b2 == byte(3 * g - 1)
                b3 == byte(3 * g)
            IN << sTab[(b1 \div 4) + 1],
                  sTab[((b1 % 4) * 16 + (b2 \div 16)) + 1],
                  IF 3 * g - 1 > n THEN cEq ELSE sTab[((b2 % 16) * 4 + (b3 \div 64)) + 1],
                  IF 3 * g > n THEN cEq ELSE sTab[(b3 % 64) + 1] >>
    IN Concat([g \in 1..((n + 2) \div 3) |-> quad(g)])

----------------------------------------------------------------------------
(* Values the environment supplies *)

sAction == <<65, 99, 116, 105, 111, 110>>   \* "Action"
sK == <<75>>                                \* "K"
sV == <<118>>                               \* "v"

(* StringParameters a caller may add: plain ones, two with the same key, a  *)
(* key a ListParameter also produces, the key 'Signature', a key with a     *)
(* reserved character, array-index keys, values with characters to encode.  *)
StringParams ==
    { StringParameter(sAction, sV),
      StringParameter(sAction, <<97, 32, 98>>),                    \* "a b"
      StringParameter(<<66>>, <<42, 40, 41, 39, 33, 233, 47, 126>>),  \* B = "*()'!" e-acute "/~"
      StringParameter(sSignature, sV),
      StringParameter(<<75, 46, 49>>, <<119>>),                    \* K.1 = "w"
      StringParameter(<<97, 42>>, sV),                             \* "a*"
      StringParameter(<<57>>, sV),                                 \* "9"
      StringParameter(<<49, 48>>, sV) }                            \* "10"

RECURSIVE SeqsUpTo(_, _)
(* all sequences over S of length at most n *)
SeqsUpTo(S, n) ==
    IF n = 0 THEN {<<>>}
    ELSE LET shorter == SeqsUpTo(S, n - 1)
         IN shorter \cup {Append(q, x) : q \in {r \in shorter : Len(r) = n - 1}, x \in S}

ListParams == {ListParameter(sK, vs) : vs \in SeqsUpTo({sV}, MaxListLen)}

TimestampParams == {TimestampParameter(sTimestamp, 1500)}

ParamPool == StringParams \cup ListParams \cup TimestampParams

(* 32-byte digests crypto's HMAC may return *)
Digests ==
    { [i \in 1..32 |-> (i * 37 + 11) % 256],
      [i \in 1..32 |-> IF i % 2 = 0 THEN 255 ELSE 251] }

(* getSignature's result for each digest the HMAC may return *)
SignatureOf == [digest \in Digests |-> getSignature(HexDigest(digest))]

(* JavaScript null and undefined, and a string value *)
Null == [null |-> TRUE]
Undefined == [undefined |-> TRUE]
Str(s) == [str |-> s]

(* obj[name] of a parsed XML node: an element with children is a function   *)
(* from child names to nodes, a text or empty element is a string           *)
Prop(obj, name) ==
    IF "str" \in DOMAIN obj THEN Undefined
    ELSE IF name \in DOMAIN obj THEN obj[name] ELSE Undefined

(* what xml2js' parseString hands its callback: an error, or the parsed tree *)
ParseOutcomes ==
    { [err |-> Str("Non-whitespace before first tag"), result |-> Undefined],
      [err |-> Null, result |->
          [ErrorResponse |-> [Error |-> [Code |-> Str("AccessDenied"), Message |-> Str("Bad")],
                              RequestId |-> Str("r1")]]],
      [err |-> Null, result |-> [ErrorResponse |-> [Error |-> [Code |-> Str("AccessDenied")]]]],
      [err |-> Null, result |-> [ErrorResponse |-> [RequestId |-> Str("r1")]]],
      [err |-> Null, result |-> [ErrorResponse |-> Str("")]],
      [err |-> Null, result |-> [ListOrdersResponse |-> [RequestId |-> Str("r1")]]],
      [err |-> Null, result |->
          [ListOrdersResponse |-> [ErrorResponse |-> [Error |-> [Message |-> Str("Bad")]]]]] }

(* what request.post hands its callback *)
Responses ==
    { [err |-> Str("ETIMEDOUT"), httpResponse |-> Undefined, parse |-> Undefined],
      [err |-> Str("ECONNRESET"), httpResponse |-> [statusCode |-> 502], parse |-> Undefined] }
    \cup { [err |-> Null, httpResponse |-> [statusCode |-> 200], parse |-> po] : po \in ParseOutcomes }

----------------------------------------------------------------------------
(* The Request *)

(* the instants moment() may return *)
Instants == {1234}

(* new Request(endpoint, credentials) at instant now *)
NewRequest(now) ==
    << StringParameter(sAWSAccessKeyId, credentials.awsAccountId),
       StringParameter(sSignatureMethod, sHmacSHA256),
       StringParameter(sSignatureVersion, <<50>>),
       TimestampParameter(sTimestamp, now) >>

NumSeeds == 4

InitRequest ==
    /\ parameters \in {NewRequest(now) : now \in Instants}
    /\ pc = "building"
    /\ strToSign = <<>>
    /\ signature = <<>>
    /\ queryString = <<>>
    /\ callbacks = <<>>
    /\ uncaught = FALSE
    /\ response = Undefined

(* request.addParam(param), as the callers use it: before send *)
AddParam ==
    /\ pc = "building"
    /\ Len(parameters) < NumSeeds + MaxParams
    /\ \E param \in ParamPool : parameters' = Append(parameters, param)
    /\ UNCHANGED <<pc, strToSign, signature, queryString, callbacks, uncaught, response>>
    /\ UNCHANGED <<listVars, b64Vars>>

(* send that appends the Signature parameter before it signs *)
SendAppendBeforeSigning ==
    /\ pc = "building"
    /\ \E digest \in Digests :
          LET sig == SignatureOf[digest]
              withSig == Append(parameters, StringParameter(sSignature, sig))
          IN /\ strToSign' = getStringToSign(withSig, sEndpoint)
             /\ signature' = sig
             /\ parameters' = withSig
             /\ queryString' = getQueryString(withSig)
    /\ pc' = "awaiting"
    /\ UNCHANGED <<callbacks, uncaught, response>>
    /\ UNCHANGED <<listVars, b64Vars>>

(* send that builds the query string before it appends the Signature *)
SendAppendAfterQuery ==
    /\ pc = "building"
    /\ \E digest \in Digests :
          LET sig == SignatureOf[digest]
              withSig == Append(parameters, StringParameter(sSignature, sig))
          IN /\ strToSign' = getStringToSign(parameters, sEndpoint)
             /\ signature' = sig
             /\ queryString' = getQueryString(parameters)
             /\ parameters' = withSig
    /\ pc' = "awaiting"
    /\ UNCHANGED <<callbacks, uncaught, response>>
    /\ UNCHANGED <<listVars, b64Vars>>

(* request.send(callback) up to the return of request.post: synchronous *)
Send ==
    /\ pc = "building"
    /\ \E digest \in Digests :
          LET sig == SignatureOf[digest]
              withSig == Append(parameters, StringParameter(sSignature, sig))
          IN /\ strToSign' = getStringToSign(parameters, sEndpoint)
             /\ signature' = sig
             /\ parameters' = withSig
             /\ queryString' = getQueryString(withSig)
    /\ pc' = "awaiting"
    /\ UNCHANGED <<callbacks, uncaught, response>>
    /\ UNCHANGED <<listVars, b64Vars>>

(* the callback of xmlParse without the test for an error report *)
ParseCallbackNoErrorReport(po) ==
    IF po.err /= Null
    THEN [throws |-> FALSE,
          calls |-> <<[err |-> [origin |-> "XMLParsing", message |-> po.err],
                       result |-> Undefined]>>]
    ELSE [throws |-> FALSE, calls |-> <<[err |-> Null, result |-> po.result]>>]

(* the callback of xmlParse: the invocations of the caller's callback it   *)
(* makes, and whether it throws by dereferencing undefined                  *)
ParseCallback(po) ==
    IF po.err /= Null
    THEN [throws |-> FALSE,
          calls |-> <<[err |-> [origin |-> "XMLParsing", message |-> po.err],
                       result |-> Undefined]>>]
    ELSE IF po.result /= Null /\ "ErrorResponse" \in DOMAIN po.result
    THEN IF Prop(po.result["ErrorResponse"], "Error") = Undefined
         THEN [throws |-> TRUE, calls |-> <<>>]
         ELSE [throws |-> FALSE,
               calls |-> <<[err |-> [origin |-> "MWS",
                                     message |-> Prop(Prop(po.result["ErrorResponse"], "Error"),
                                                      "Message"),
                                     metadata |-> Prop(po.result["ErrorResponse"], "Error")],
                            result |-> Undefined]>>]
    ELSE [throws |-> FALSE, calls |-> <<[err |-> Null, result |-> po.result]>>]

(* the callback of request.post.  An exception thrown inside the callback   *)
(* of xmlParse either leaves the handler or, with a parser that traps it,   *)
(* is handed to the same callback as a parse error.                         *)
PostCallback ==
    /\ pc = "awaiting"
    /\ \E r \in Responses, trapped \in BOOLEAN :
          /\ response' = r
          /\ IF r.err /= Null
             THEN /\ callbacks' = Append(callbacks,
                         [err |-> [origin |-> "PostRequest", message |-> r.err,
                                   metadata |-> r.httpResponse],
                          result |-> Undefined])
                  /\ uncaught' = FALSE
                  /\ trapped = FALSE
             ELSE IF ParseCallback(r.parse).throws
             THEN IF trapped
                  THEN /\ callbacks' = Append(callbacks,
                              [err |-> [origin |-> "XMLParsing",
                                        message |-> Str("TypeError")],
                               result |-> Undefined])
                       /\ uncaught' = FALSE
                  ELSE /\ callbacks' = callbacks
                       /\ uncaught' = TRUE
             ELSE /\ callbacks' = callbacks \o ParseCallback(r.parse).calls
                  /\ uncaught' = FALSE
                  /\ trapped = FALSE
    /\ pc' = "done"
    /\ UNCHANGED <<parameters, strToSign, signature, queryString>>
    /\ UNCHANGED <<listVars, b64Vars>>

----------------------------------------------------------------------------
(* A ListParameter on its own *)

ListKeys == {sK, <<75, 46, 49>>}            \* "K", "K.1"
ListVals == {sV, <<97, 32, 98>>}            \* "v", "a b"

(* new ListParameter(key, values?) *)
InitList ==
    /\ listKey \in ListKeys
    /\ listValues \in SeqsUpTo(ListVals, MaxListLen)
    /\ listResult = <<>>
    /\ listOp = "new"

(* list.push(value) *)
ListPush ==
    /\ Len(listValues) < MaxListLen + MaxPush
    /\ \E value \in ListVals : listValues' = Append(listValues, value)
    /\ listOp' = "push"
    /\ UNCHANGED <<listKey, listResult>>
    /\ UNCHANGED <<reqVars, b64Vars>>

(* list.serialize() *)
ListSerializeCall ==
    /\ listResult' = ListSerialize(listKey, listValues)
    /\ listOp' = "serialize"
    /\ UNCHANGED <<listKey, listValues>>
    /\ UNCHANGED <<reqVars, b64Vars>>

----------------------------------------------------------------------------
(* getSignature on its own, from the hex digest on *)

ByteVals == {0, 15, 165, 255, 62}

InitB64 ==
    /\ hexInput \in {HexDigest(bytes) : bytes \in SeqsUpTo(ByteVals, MaxBytes) \cup Digests}
    /\ b64Output = <<>>
    /\ b64Op = "input"

SignDigest ==
    /\ b64Op = "input"
    /\ b64Output' = getSignature(hexInput)
    /\ b64Op' = "done"
    /\ UNCHANGED hexInput
    /\ UNCHANGED <<reqVars, listVars>>

----------------------------------------------------------------------------
(* Specifications *)

IdleRequest ==
    /\ parameters = NewRequest(1234)
    /\ pc = "building"
    /\ strToSign = <<>>
    /\ signature = <<>>
    /\ queryString = <<>>
    /\ callbacks = <<>>
    /\ uncaught = FALSE
    /\ response = Undefined

IdleList ==
    /\ listKey = sK
    /\ listValues = <<>>
    /\ listResult = <<>>
    /\ listOp = "new"

IdleB64 ==
    /\ hexInput = <<>>
    /\ b64Output = <<>>
    /\ b64Op = "input"

Init == InitRequest /\ IdleList /\ IdleB64

Next == AddParam \/ Send \/ PostCallback

Spec == Init /\ [][Next]_vars

InitListSpec == IdleRequest /\ InitList /\ IdleB64

NextList == ListPush \/ ListSerializeCall

SpecList == InitListSpec /\ [][NextList]_vars

InitB64Spec == IdleRequest /\ IdleList /\ InitB64

NextB64 == SignDigest

SpecB64 == InitB64Spec /\ [][NextB64]_vars

----------------------------------------------------------------------------
(* Reading the strings the Request produced *)

(* the segments of str between occurrences of the character ch *)
SplitOn(str, ch) ==
    LET seps == {i \in 1..Len(str) : str[i] = ch}
        n == Cardinality(seps)
        sep(k) == IF k = 0 THEN 0
                  ELSE IF k = n + 1 THEN Len(str) + 1
                  ELSE CHOOSE p \in seps : Cardinality({q \in seps : q < p}) = k - 1
    IN [k \in 1..(n + 1) |-> SubSeq(str, sep(k - 1) + 1, sep(k) - 1)]

(* the <<key, encoded value>> pairs of a key=value&key=value string, in order *)
PairsOf(str) ==
    IF str = <<>> THEN <<>>
    ELSE LET items == SplitOn(str, cAmp)
         IN [i \in 1..Len(items) |->
                LET kv == SplitOn(items[i], cEq)
                IN <<kv[1], SubSeq(items[i], Len(kv[1]) + 2, Len(items[i]))>>]

PairSet(str) == LET pairs == PairsOf(str) IN {pairs[i] : i \in 1..Len(pairs)}

KeysOf(str) == LET pairs == PairsOf(str) IN [i \in 1..Len(pairs) |-> pairs[i][1]]

KeySetOf(str) == LET pairs == PairsOf(str) IN {pairs[i][1] : i \in 1..Len(pairs)}

(* the fourth line of the string-to-sign: the signed key=value pairs *)
SignedPart(str) == SplitOn(str, cNewline)[4]

(* the Parameters the caller added or the constructor seeded, without the  *)
(* Signature parameter send appended                                        *)
PreSend == IF pc = "building" THEN parameters ELSE SubSeq(parameters, 1, Len(parameters) - 1)

UserParams == SubSeq(PreSend, NumSeeds + 1, Len(PreSend))

(* a Parameter present before signing serializes to the key 'Signature' *)
CallerAddedSignature ==
    \E i \in 1..Len(PreSend) : Has(Serialize(PreSend[i]), sSignature)

(* the indices of the Parameters of params that serialize to key k *)
Producers(params, k) == {i \in 1..Len(params) : Has(Serialize(params[i]), k)}

Max(S) == CHOOSE x \in S : \A y \in S : y <= x

(* no two Parameters of params serialize to a common key *)
DistinctKeys(params) ==
    \A i, j \in 1..Len(params) :
        i /= j => KeySet(Serialize(params[i])) \cap KeySet(Serialize(params[j])) = {}

(* the orders in which the caller could have added the same Parameters *)
Reorderings(params) ==
    LET n == Len(params)
        perms == {f \in [1..n -> 1..n] : \A i, j \in 1..n : i /= j => f[i] /= f[j]}
    IN {[i \in 1..n |-> params[f[i]]] : f \in perms}

IsSorted(keys) == \A i \in 1..(Len(keys) - 1) : StrLess(keys[i], keys[i + 1])

----------------------------------------------------------------------------
(* C1 *)

(* C1 (as stated): when send has run, the pairs that were signed never hold  *)
(* the key 'Signature', and the query string of the POST always does.       *)
C1_Original ==
    pc = "awaiting" =>
        /\ sSignature \notin KeySetOf(SignedPart(strToSign))
        /\ sSignature \in KeySetOf(queryString)

(* C1 (amended): once send has run, the pairs that were signed hold the key *)
(* 'Signature' only if a Parameter the caller added before send serializes  *)
(* to that key, and the query string of the POST always holds it, with the  *)
(* signature send computed as its value.                                    *)
C1_Amended ==
    pc = "awaiting" =>
        /\ (sSignature \in KeySetOf(SignedPart(strToSign)) => CallerAddedSignature)
        /\ <<sSignature, urlEncode(signature)>> \in PairSet(queryString)

C1_Witness ==
    /\ pc = "done"
    /\ Len(UserParams) >= 2
    /\ ~CallerAddedSignature
    /\ sSignature \notin KeySetOf(SignedPart(strToSign))
    /\ sSignature \in KeySetOf(queryString)

----------------------------------------------------------------------------
(* C10 *)

(* C10 (as stated): the pairs transmitted in the query string, without the  *)
(* 'Signature' pair, are exactly the pairs that were signed.                *)
C10_Original ==
    pc = "awaiting" =>
        {p \in PairSet(queryString) : p[1] /= sSignature} = PairSet(SignedPart(strToSign))

(* C10 (amended): the same, for a Request to which the caller added no      *)
(* Parameter serializing to the key 'Signature'; in every case the pairs    *)
(* with any other key agree.                                                *)
C10_Amended ==
    pc = "awaiting" =>
        /\ {p \in PairSet(queryString) : p[1] /= sSignature}
              = {p \in PairSet(SignedPart(strToSign)) : p[1] /= sSignature}
        /\ (~CallerAddedSignature =>
              {p \in PairSet(queryString) : p[1] /= sSignature}
                 = PairSet(SignedPart(strToSign)))

C10_Witness ==
    /\ pc = "awaiting"
    /\ ~CallerAddedSignature
    /\ Cardinality(PairSet(SignedPart(strToSign))) >= 6
    /\ Cardinality(PairSet(queryString)) = Cardinality(PairSet(SignedPart(strToSign))) + 1

----------------------------------------------------------------------------
(* C3 *)

(* C3 (as stated): whatever the order in which the caller added the same    *)
(* Parameters, the string-to-sign is the same string, and its keys are in   *)
(* lexicographic order.                                                     *)
C3_Original ==
    pc = "awaiting" =>
        /\ \A other \in Reorderings(UserParams) :
              getStringToSign(SubSeq(PreSend, 1, NumSeeds) \o other, sEndpoint) = strToSign
        /\ IsSorted(KeysOf(SignedPart(strToSign)))

(* C3 (amended): the same, when no two Parameters of the Request serialize  *)
(* to the same key; the keys are in lexicographic order in every case.      *)
C3_Amended ==
    pc = "awaiting" =>
        /\ DistinctKeys(PreSend) =>
              \A other \in Reorderings(UserParams) :
                  getStringToSign(SubSeq(PreSend, 1, NumSeeds) \o other, sEndpoint) = strToSign
        /\ IsSorted(KeysOf(SignedPart(strToSign)))

C3_Witness ==
    /\ pc = "awaiting"
    /\ Len(UserParams) >= 2
    /\ DistinctKeys(PreSend)
    /\ ~IsSorted(Keys(Flatten(PreSend)))
    /\ StrLess(UserParams[2].key, UserParams[1].key)

----------------------------------------------------------------------------
(* C5 *)

(* the characters a percent-encoded key or value is made of: the unreserved *)
(* characters A-Z a-z 0-9 - _ . ~ and the % of an escape                    *)
IsEncodedChar(c) ==
    \/ c \in 65..90
    \/ c \in 97..122
    \/ c \in 48..57
    \/ c \in {45, 95, 46, 126, cPercent}

AllEncoded(str) == \A i \in 1..Len(str) : IsEncodedChar(str[i])

(* C5 (as stated): every key and every value in the string-to-sign and in   *)
(* the query string went through urlEncode, so neither holds a raw          *)
(* * ( ) ' ! or other reserved character from a key or a value.             *)
C5_Claim ==
    pc = "awaiting" =>
        /\ \A p \in PairSet(SignedPart(strToSign)) : AllEncoded(p[1]) /\ AllEncoded(p[2])
        /\ \A p \in PairSet(queryString) : AllEncoded(p[1]) /\ AllEncoded(p[2])

----------------------------------------------------------------------------
(* C6 *)

(* the value the Parameter of params added last gives key k *)
LastValue(params, k) == Get(Serialize(params[Max(Producers(params, k))]), k)

(* key k occurs exactly once among the pairs of str, with value v encoded *)
HoldsOnce(str, k, v) ==
    LET pairs == PairsOf(str)
    IN /\ Cardinality({i \in 1..Len(pairs) : pairs[i][1] = k}) = 1
       /\ <<k, urlEncode(v)>> \in {pairs[i] : i \in 1..Len(pairs)}

DuplicatedKeys(params) ==
    {k \in UNION {KeySet(Serialize(params[i])) : i \in 1..Len(params)} :
        Cardinality(Producers(params, k)) >= 2}

(* C6: a key that two or more Parameters of the Request serialize to occurs *)
(* exactly once in the string-to-sign and exactly once in the query string, *)
(* each time with the value of the Parameter added last; and addParam       *)
(* appends its Parameter whatever the Request already holds.                *)
C6_LastWins ==
    /\ [](pc = "awaiting" =>
            /\ \A k \in DuplicatedKeys(PreSend) :
                  HoldsOnce(SignedPart(strToSign), k, LastValue(PreSend, k))
            /\ \A k \in DuplicatedKeys(parameters) :
                  HoldsOnce(queryString, k, LastValue(parameters, k)))
    /\ [][pc' = "building" =>
            /\ Len(parameters') = Len(parameters) + 1
            /\ SubSeq(parameters', 1, Len(parameters)) = parameters]_vars

C6_Witness ==
    /\ pc = "awaiting"
    /\ Len(UserParams) = 2
    /\ UserParams[1].type = "String"
    /\ UserParams[2].type = "String"
    /\ UserParams[1].key = UserParams[2].key
    /\ UserParams[1].value /= UserParams[2].value
    /\ HoldsOnce(queryString, UserParams[1].key, UserParams[2].value)

----------------------------------------------------------------------------
(* C9 *)

(* C9: the step in which send runs appends exactly the Signature parameter, *)
(* whose value is the signature of the string-to-sign of the Parameters as  *)
(* they were before, and the query string posted is built from the sequence *)
(* with that parameter; after it nothing of the Request changes.            *)
C9_OnlySignatureAppended ==
    [][/\ (pc = "building" /\ pc' /= "building") =>
              /\ parameters' = Append(parameters, StringParameter(sSignature, signature'))
              /\ strToSign' = getStringToSign(parameters, sEndpoint)
              /\ queryString' = getQueryString(parameters')
              /\ pc' = "awaiting"
       /\ pc /= "building" =>
              /\ parameters' = parameters
              /\ strToSign' = strToSign
              /\ signature' = signature
              /\ queryString' = queryString
              /\ pc' /= "building"]_vars

C9_Witness ==
    /\ pc = "done"
    /\ Len(parameters) = NumSeeds + MaxParams + 1
    /\ parameters[Len(parameters)] = StringParameter(sSignature, signature)
    /\ \A i \in 1..(Len(parameters) - 1) : parameters[i].key /= sSignature
    /\ Len(callbacks) = 1

----------------------------------------------------------------------------
(* C2 *)

(* the outcome an invocation of the caller's callback reports *)
OutcomeOf(call) ==
    IF call.err = Null THEN "success"
    ELSE IF call.err.origin = "PostRequest" THEN "transport"
    ELSE IF call.err.origin = "XMLParsing" THEN "parse"
    ELSE IF call.err.origin = "MWS" THEN "api"
    ELSE "other"

(* C2 (as stated): whatever the transport result and the response body,     *)
(* once the response handler has run the caller's callback has been invoked *)
(* exactly once, with one of the four outcomes; and never more than once.   *)
C2_Claim ==
    /\ Len(callbacks) <= 1
    /\ pc = "done" =>
          /\ Len(callbacks) = 1
          /\ OutcomeOf(callbacks[1]) \in {"transport", "parse", "api", "success"}

----------------------------------------------------------------------------
(* C4 *)

IsErrorReport(result) == result /= Null /\ "ErrorResponse" \in DOMAIN result

(* the classification of the response, with the given origin tags; a parsed *)
(* error report without a nested Error is left to its caller                *)
Classified(transportTag, parseTag, apiTag) ==
    IF response.err /= Null
    THEN callbacks = <<[err |-> [origin |-> transportTag, message |-> response.err,
                                 metadata |-> response.httpResponse],
                        result |-> Undefined]>>
    ELSE IF response.parse.err /= Null
    THEN /\ Len(callbacks) = 1
         /\ callbacks[1].err /= Null
         /\ callbacks[1].err.origin = parseTag
         /\ callbacks[1].err.message = response.parse.err
    ELSE IF IsErrorReport(response.parse.result)
    THEN LET report == response.parse.result["ErrorResponse"]
         IN IF "str" \notin DOMAIN report /\ "Error" \in DOMAIN report
            THEN /\ Len(callbacks) = 1
                 /\ callbacks[1].err /= Null
                 /\ callbacks[1].err.origin = apiTag
                 /\ callbacks[1].err.message = Prop(report["Error"], "Message")
                 /\ callbacks[1].err.metadata = report["Error"]
            ELSE TRUE
    ELSE callbacks = <<[err |-> Null, result |-> response.parse.result]>>

(* a parsed error report that has no nested Error element *)
ErrorReportWithoutError ==
    /\ response.err = Null
    /\ response.parse.err = Null
    /\ IsErrorReport(response.parse.result)
    /\ Prop(response.parse.result["ErrorResponse"], "Error") = Undefined

(* C4 (as stated): a failed network call yields an error of origin          *)
(* "transport" with the underlying error and the response metadata, a body  *)
(* that is not well-formed XML one of origin "parse", a parsed error report *)
(* one of origin "api" with the nested Error's Message and payload, and any *)
(* other parsed body success with a null error and the parsed structure.    *)
C4_Original ==
    pc = "done" =>
        /\ Classified("transport", "parse", "api")
        /\ ErrorReportWithoutError =>
              Len(callbacks) = 1 /\ callbacks[1].err /= Null /\ callbacks[1].err.origin = "api"

(* C4 (amended): the origin tags are 'PostRequest', 'XMLParsing' and 'MWS'; *)
(* and a parsed error report yields the 'MWS' error only when it has a      *)
(* nested Error element: without one the handler throws, so that either no  *)
(* callback is made or the parser hands the exception back and the caller   *)
(* gets an 'XMLParsing' error.                                              *)
C4_Amended ==
    pc = "done" =>
        /\ Classified("PostRequest", "XMLParsing", "MWS")
        /\ ErrorReportWithoutError =>
              \/ callbacks = <<>> /\ uncaught
              \/ /\ Len(callbacks) = 1
                 /\ callbacks[1].err /= Null
                 /\ callbacks[1].err.origin = "XMLParsing"
                 /\ ~uncaught

C4_Witness ==
    /\ pc = "done"
    /\ response.err = Null
    /\ response.parse.err = Null
    /\ IsErrorReport(response.parse.result)
    /\ Len(callbacks) = 1
    /\ callbacks[1].err /= Null
    /\ callbacks[1].err.origin = "MWS"
    /\ callbacks[1].err.message = Str("Bad")

----------------------------------------------------------------------------
(* C7 *)

(* the decimal numeral of an index below one hundred *)
Numeral(i) == IF i < 10 THEN <<48 + i>> ELSE <<48 + (i \div 10), 48 + (i % 10)>>

(* C7: serialize of a ListParameter with key K and values v1..vN returns    *)
(* exactly the N pairs K.1 = v1, ..., K.N = vN, in that order, and the      *)
(* empty mapping when N = 0.                                                *)
C7_ListPairs ==
    listOp = "serialize" =>
        /\ Len(listResult) = Len(listValues)
        /\ \A i \in 1..Len(listValues) :
              listResult[i] = <<listKey \o <<cDot>> \o Numeral(i), listValues[i]>>

C7_Witness ==
    /\ listOp = "serialize"
    /\ Len(listValues) > MaxListLen
    /\ Len(listResult) = Len(listValues)
    /\ listResult[Len(listResult)][1] = listKey \o <<cDot>> \o Numeral(Len(listValues))

----------------------------------------------------------------------------
(* C8 *)

(* the value of a lower-case hex digit *)
HexValue(c) == IF c \in 48..57 THEN c - 48 ELSE c - 87

(* the bytes an even-length hex string denotes *)
BytesOf(hex) ==
    [i \in 1..(Len(hex) \div 2) |-> 16 * HexValue(hex[2 * i - 1]) + HexValue(hex[2 * i])]

(* C8: for a hex digest of even length getSignature returns the standard    *)
(* base64 encoding of the bytes the digest denotes; its length is a         *)
(* multiple of 4 and the padding loop of getSignature adds nothing to what  *)
(* hexStrToBase64 returned.                                                 *)
C8_Base64 ==
    b64Op = "done" =>
        /\ b64Output = Base64Std(BytesOf(hexInput))
        /\ Len(b64Output) % 4 = 0
        /\ b64Output = hexStrToBase64(hexInput)

C8_Witness ==
    /\ b64Op = "done"
    /\ Len(hexInput) = 64
    /\ Len(b64Output) = 44
    /\ b64Output[44] = cEq
    /\ b64Output[43] /= cEq

====
